---------------------------- MODULE Spec2Model ----------------------------
(***************************************************************************)
(* Model of the gaufre front end: the byte lexer (src/src/lexer.rs), the   *)
(* recursive-descent parser (src/src/parser.rs) and the import-resolving   *)
(* driver (src/src/main.rs).                                               *)
(*                                                                         *)
(* Source text is a sequence of bytes (0..255); token payloads are byte    *)
(* sequences.  Three specifications share the module:                      *)
(*   Spec        one Lexer, next_token called repeatedly on one input;     *)
(*   SpecParser  Parser::new followed by one of the two grammar entries;   *)
(*   SpecDriver  main(): root file, then the import loop, then the output. *)
(***************************************************************************)
EXTENDS Integers, Sequences, FiniteSets, TLC

VARIABLES
    lx,             \* Spec: the Lexer {input, i, line, col, file}
    rets,           \* Spec: the values returned by the next_token calls so far
    psrc,           \* SpecParser: the source text handed to the lexer
    parser,         \* SpecParser: the Parser {lx, cur, cur_pos}
    pres,           \* SpecParser: what Parser::new or the grammar entry returned
    ppc,            \* SpecSteps: where the grammar entry point is in its code
    pacc,           \* SpecSteps: the entry's local lists {imports, stmts}
    root_path,      \* SpecDriver: argv[1]
    disk,           \* SpecDriver: file contents, by canonical location
    pc,             \* SpecDriver: position of main()
    imports,        \* SpecDriver: import paths returned by parse_main_program
    root_prog,      \* SpecDriver: the root Program's statements
    idx,            \* SpecDriver: number of imports the for loop has taken
    seen,           \* SpecDriver: the HashSet of resolved paths
    imported_stmts, \* SpecDriver: the accumulated statement list
    reads,          \* SpecDriver: paths handed to fs::read_to_string, in order
    loaded,         \* SpecDriver: {rel, path, part} of each append to imported_stmts
    result          \* SpecDriver: value returned by main()

lexVars == <<lx, rets>>
parVars == <<psrc, parser, pres>>
stepVars == <<ppc, pacc>>
drvVars == <<root_path, disk, pc, imports, root_prog, idx, seen,
             imported_stmts, reads, loaded, result>>
vars == <<lx, rets, psrc, parser, pres, ppc, pacc, root_path, disk, pc, imports, root_prog, idx,
          seen, imported_stmts, reads, loaded, result>>

---------------------------------------------------------------------------
(* Bounds of the model.                                                    *)

\* longest lexer input, in chunks of LexChunks
MaxChunks == 3
\* next_token calls made on one lexer
MaxCalls == 5
\* longest parser source, in lines of SourceLines
MaxLines == 4
\* most import statements in a root file
MaxImports == 3
\* longest source parsed step by step, in lines of SourceLines
MaxStepLines == 3

---------------------------------------------------------------------------
(* Bytes and byte strings.                                                 *)

\* Option<u8>::None of peek()
None == -1

TAB == 9
LF == 10
CR == 13
SPACE == 32
QUOTE == 34

\* skip_ws with the carriage return forgotten
IsWs_NoCR(b) == b \in {SPACE, TAB, LF}

IsWs(b) == b \in {SPACE, TAB, CR, LF}

\* grammar.rs
KW_IMPORT == <<105, 109, 112, 111, 114, 116>>
KW_FN == <<102, 110>>
KW_MAIN == <<109, 97, 105, 110>>
KW_LOG == <<108, 111, 103>>
KW_CALL == <<99, 97, 108, 108>>
LPAREN == <<40>>
RPAREN == <<41>>
LBRACE == <<123>>
RBRACE == <<125>>
COMMA == <<44>>
EOF == "end of file"

RECURSIVE Concat(_)
Concat(ss) == IF ss = <<>> THEN <<>> ELSE Head(ss) \o Concat(Tail(ss))

\* input[a..b) with 0-based offsets, as Rust's &input[a..b]
Slice(s, a, b) == SubSeq(s, a + 1, b)

---------------------------------------------------------------------------
(* Tokens, positions, errors (lexer.rs 3-33).                              *)

Tok(tag) == [tag |-> tag, text |-> <<>>]
TokText(tag, text) == [tag |-> tag, text |-> text]
NoTok == Tok("-")

NoMsg == [fmt |-> "", hex |-> <<>>]
MsgIncomplete == [fmt |-> "incomplete string (\" missing)", hex |-> <<>>]

\* {:02X}: two upper-case hexadecimal digits, as bytes
HexDigit(d) == IF d < 10 THEN 48 + d ELSE 55 + d
Hex02(b) == <<HexDigit(b \div 16), HexDigit(b % 16)>>
\* the message of lexer.rs 246, its text written in ASCII
MsgUnexpected(b) == [fmt |-> "caractere inattendu: 0x{:02X}", hex |-> Hex02(b)]

---------------------------------------------------------------------------
(* Lexer (lexer.rs 45-250).  Every operator takes the Lexer record and     *)
(* returns the Lexer as the call leaves it, with the value returned.       *)

with_file(file, input) ==
    [input |-> input, i |-> 0, line |-> 1, col |-> 1, file |-> file]

eof(l) == l.i >= Len(l.input)

peek(l) == IF l.i < Len(l.input) THEN l.input[l.i + 1] ELSE None

bump_line(l, b) == IF b = LF THEN l.line + 1 ELSE l.line
bump_col(l, b) == IF b = LF THEN 1 ELSE l.col + 1

bump(l) ==
    IF peek(l) = None THEN l
    ELSE [l EXCEPT !.i = l.i + 1, !.line = bump_line(l, peek(l)),
                   !.col = bump_col(l, peek(l))]

RECURSIVE skip_ws(_)
skip_ws(l) ==
    IF peek(l) # None /\ IsWs(peek(l)) THEN skip_ws(bump(l)) ELSE l

\* &input[i..] panics unless i is on a UTF-8 character boundary
IsCharBoundary(s, k) ==
    \/ k = 0
    \/ k = Len(s)
    \/ k < Len(s) /\ ~(s[k + 1] \in 128..191)

starts_with(l, s) ==
    /\ Len(s) <= Len(l.input) - l.i
    /\ \A k \in 1..Len(s) : l.input[l.i + k] = s[k]

\* try_take moving the cursor without counting the columns
try_take_lx_NoCol(l, s) ==
    IF starts_with(l, s)
    THEN [l EXCEPT !.i = l.i + Len(s)]
    ELSE l

try_take_lx(l, s) ==
    IF starts_with(l, s)
    THEN [l EXCEPT !.i = l.i + Len(s), !.col = l.col + Len(s)]
    ELSE l

try_symbol(l) ==
    IF starts_with(l, LPAREN) THEN [some |-> TRUE, tok |-> Tok("LParen"), lx |-> try_take_lx(l, LPAREN)]
    ELSE IF starts_with(l, RPAREN) THEN [some |-> TRUE, tok |-> Tok("RParen"), lx |-> try_take_lx(l, RPAREN)]
    ELSE IF starts_with(l, LBRACE) THEN [some |-> TRUE, tok |-> Tok("LBrace"), lx |-> try_take_lx(l, LBRACE)]
    ELSE IF starts_with(l, RBRACE) THEN [some |-> TRUE, tok |-> Tok("RBrace"), lx |-> try_take_lx(l, RBRACE)]
    ELSE IF starts_with(l, COMMA) THEN [some |-> TRUE, tok |-> Tok("Comma"), lx |-> try_take_lx(l, COMMA)]
    ELSE [some |-> FALSE, tok |-> NoTok, lx |-> l]

get_pos(l) == [byte |-> l.i, line |-> l.line, col |-> l.col, file |-> l.file]

\* the loop of read_string: the lexer stopped on the closing quote, or at the end
RECURSIVE scan_string(_)
scan_string(l) ==
    IF peek(l) = None \/ peek(l) = QUOTE THEN l ELSE scan_string(bump(l))

\* the end of read_string: l2 is the lexer after the loop, s the offset after
\* the opening quote
read_string_end(input, s, l2) ==
    IF peek(l2) = QUOTE
    THEN [ok |-> TRUE, tok |-> TokText("Str", Slice(input, s, l2.i)),
          msg |-> NoMsg, pos |-> get_pos(l2), lx |-> bump(l2)]
    ELSE [ok |-> FALSE, tok |-> NoTok,
          msg |-> MsgIncomplete, pos |-> get_pos(l2), lx |-> l2]

\* read_string keeping the opening quote in the payload
read_string_FromQuote(l) == read_string_end(l.input, l.i, scan_string(bump(l)))

\* read_string reporting the unterminated string where it starts
\* (start_byte, start_line, start_col of lexer.rs 150-152)
read_string_ErrAtStart(l) ==
    IF peek(scan_string(bump(l))) = QUOTE
    THEN read_string_end(l.input, bump(l).i, scan_string(bump(l)))
    ELSE [ok |-> FALSE, tok |-> NoTok,
          msg |-> MsgIncomplete, pos |-> get_pos(l), lx |-> scan_string(bump(l))]

read_string(l) == read_string_end(l.input, bump(l).i, scan_string(bump(l)))

is_ident_start(b) == b \in 97..122 \/ b \in 65..90 \/ b = 95
is_digit(b) == b \in 48..57
is_ident_continue(b) == is_ident_start(b) \/ is_digit(b)

RECURSIVE scan_ident(_)
scan_ident(l) ==
    IF peek(l) # None /\ is_ident_continue(peek(l)) THEN scan_ident(bump(l)) ELSE l

read_ident_end(l, l1) == [id |-> Slice(l.input, l.i, l1.i), lx |-> l1]
read_ident(l) == read_ident_end(l, scan_ident(l))

RECURSIVE scan_number(_)
scan_number(l) ==
    IF peek(l) # None /\ is_digit(peek(l)) THEN scan_number(bump(l)) ELSE l

read_number_end(l, l1) == [n |-> Slice(l.input, l.i, l1.i), lx |-> l1]
\* read_number with the slice starting after the first digit
read_number_AfterFirst(l) == read_number_end(bump(l), scan_number(l))

read_number(l) == read_number_end(l, scan_number(l))

IsPrefixOf(p, s) == Len(p) <= Len(s) /\ SubSeq(s, 1, Len(p)) = p

\* keywords recognised by prefix instead of on the whole run
keyword_or_ident_Prefix(id) ==
    IF IsPrefixOf(KW_IMPORT, id) THEN Tok("Import")
    ELSE IF IsPrefixOf(KW_CALL, id) THEN Tok("Call")
    ELSE IF IsPrefixOf(KW_FN, id) THEN Tok("Fn")
    ELSE IF IsPrefixOf(KW_MAIN, id) THEN Tok("Main")
    ELSE IF IsPrefixOf(KW_LOG, id) THEN Tok("Log")
    ELSE TokText("Ident", id)

\* the arm for 'call' missing from the match
keyword_or_ident_NoCall(id) ==
    IF id = KW_IMPORT THEN Tok("Import")
    ELSE IF id = KW_FN THEN Tok("Fn")
    ELSE IF id = KW_MAIN THEN Tok("Main")
    ELSE IF id = KW_LOG THEN Tok("Log")
    ELSE TokText("Ident", id)

\* the match of next_token on the identifier text
keyword_or_ident(id) ==
    IF id = KW_IMPORT THEN Tok("Import")
    ELSE IF id = KW_CALL THEN Tok("Call")
    ELSE IF id = KW_FN THEN Tok("Fn")
    ELSE IF id = KW_MAIN THEN Tok("Main")
    ELSE IF id = KW_LOG THEN Tok("Log")
    ELSE TokText("Ident", id)

RetOk(l, tok, pos) == [kind |-> "ok", tok |-> tok, pos |-> pos, msg |-> NoMsg, lx |-> l]
RetErr(l, msg, pos) == [kind |-> "err", tok |-> NoTok, pos |-> pos, msg |-> msg, lx |-> l]
RetPanic(l) == [kind |-> "panic", tok |-> NoTok, pos |-> get_pos(l), msg |-> NoMsg, lx |-> l]

\* the returns of next_token, from what the helper it called gave
ret_symbol(sym, pos) == RetOk(sym.lx, sym.tok, pos)
ret_string(r, pos) == IF r.ok THEN RetOk(r.lx, r.tok, pos) ELSE RetErr(r.lx, r.msg, r.pos)
ret_ident(r, pos) == RetOk(r.lx, keyword_or_ident(r.id), pos)
ret_number(r, pos) == RetOk(r.lx, TokText("Number", r.n), pos)

\* next_token stepping over the byte it reports
next_token_at_Consume(l, pos, b) ==
    IF eof(l) THEN RetOk(l, Tok("Eof"), pos)
    ELSE IF ~IsCharBoundary(l.input, l.i) THEN RetPanic(l)
    ELSE IF try_symbol(l).some THEN ret_symbol(try_symbol(l), pos)
    ELSE IF b = QUOTE THEN ret_string(read_string(l), pos)
    ELSE IF is_ident_start(b) THEN ret_ident(read_ident(l), pos)
    ELSE IF is_digit(b) THEN ret_number(read_number(l), pos)
    ELSE RetErr(bump(l), MsgUnexpected(b), get_pos(bump(l)))

\* next_token reporting the byte where it is and going on after it
next_token_at_Recover(l, pos, b) ==
    IF eof(l) THEN RetOk(l, Tok("Eof"), pos)
    ELSE IF ~IsCharBoundary(l.input, l.i) THEN RetPanic(l)
    ELSE IF try_symbol(l).some THEN ret_symbol(try_symbol(l), pos)
    ELSE IF b = QUOTE THEN ret_string(read_string(l), pos)
    ELSE IF is_ident_start(b) THEN ret_ident(read_ident(l), pos)
    ELSE IF is_digit(b) THEN ret_number(read_number(l), pos)
    ELSE RetErr(bump(l), MsgUnexpected(b), get_pos(l))

\* next_token after skip_ws: l is the lexer, pos its position, b the byte under it
next_token_at(l, pos, b) ==
    IF eof(l) THEN RetOk(l, Tok("Eof"), pos)
    ELSE IF ~IsCharBoundary(l.input, l.i) THEN RetPanic(l)
    ELSE IF try_symbol(l).some THEN ret_symbol(try_symbol(l), pos)
    ELSE IF b = QUOTE THEN ret_string(read_string(l), pos)
    ELSE IF is_ident_start(b) THEN ret_ident(read_ident(l), pos)
    ELSE IF is_digit(b) THEN ret_number(read_number(l), pos)
    ELSE RetErr(l, MsgUnexpected(b), get_pos(l))

next_token_skipped(l) == next_token_at(l, get_pos(l), peek(l))

\* next_token taking the position before the whitespace is skipped
next_token_PosFirst(l0) == next_token_at(skip_ws(l0), get_pos(l0), peek(skip_ws(l0)))

next_token(l0) == next_token_skipped(skip_ws(l0))

\* what the caller of next_token receives
Returned(r) == [kind |-> r.kind, tok |-> r.tok, pos |-> r.pos, msg |-> r.msg]

---------------------------------------------------------------------------
(* Parser (parser.rs).  A Parser is {lx, cur, cur_pos}; every method is an *)
(* operator from the Parser to a result {kind, p, val, err}: kind is "ok", *)
(* "err" (a ParseError) or "panic", p is the Parser as the call leaves it. *)

\* &'static str naming what was expected: a grammar.rs word or a literal
\* (the source's backquotes are written as apostrophes in the literals)
ExpLit(bytes) == [lit |-> bytes, text |-> ""]
ExpText(s) == [lit |-> <<>>, text |-> s]
NoPos == [byte |-> 0, line |-> 0, col |-> 0, file |-> ""]

NoErr == [variant |-> "-", found |-> NoTok, expected |-> ExpText(""),
          pos |-> NoPos, msg |-> NoMsg]
\* impl From<LexError> for ParseError
ErrLex(msg, pos) == [variant |-> "Lex", found |-> NoTok, expected |-> ExpText(""),
                     pos |-> pos, msg |-> msg]
ErrUnexpected(found, expected, pos) ==
    [variant |-> "Unexpected", found |-> found, expected |-> expected,
     pos |-> pos, msg |-> NoMsg]

\* Stmt::Log(vec![Expr::Str(s)]) and Stmt::Call { name }
ExprStr(s) == [kind |-> "Str", s |-> s]
StmtLog(s) == [kind |-> "Log", exprs |-> <<ExprStr(s)>>, name |-> <<>>]
StmtCall(name) == [kind |-> "Call", exprs |-> <<>>, name |-> name]

NoVal == [imports |-> <<>>, stmts |-> <<>>]
POk(p, val) == [kind |-> "ok", p |-> p, val |-> val, err |-> NoErr]
PErr(p, err) == [kind |-> "err", p |-> p, val |-> NoVal, err |-> err]
PPanic(p) == [kind |-> "panic", p |-> p, val |-> NoVal, err |-> NoErr]
\* the '?' operator: the failure of a step, returned as it is
PFail(r) == [kind |-> r.kind, p |-> r.p, val |-> NoVal, err |-> r.err]

NoParser == [lx |-> with_file("", <<>>), cur |-> NoTok, cur_pos |-> NoPos]

\* what the caller of Parser::new or of a grammar entry point receives
NoResult == [entry |-> "none", kind |-> "none", val |-> NoVal, err |-> NoErr]
Result(entry, r) == [entry |-> entry, kind |-> r.kind, val |-> r.val, err |-> r.err]

\* a lexer error turned into a parser error of the other kind
FromLex_AsUnexpected(p, r) ==
    IF r.kind = "ok"
    THEN POk([lx |-> r.lx, cur |-> r.tok, cur_pos |-> r.pos], NoVal)
    ELSE IF r.kind = "err"
    THEN PErr([p EXCEPT !.lx = r.lx], ErrUnexpected(NoTok, ExpText("a token"), r.pos))
    ELSE PPanic([p EXCEPT !.lx = r.lx])

\* a lexer result seen from a parser whose lexer made the call
FromLex(p, r) ==
    IF r.kind = "ok"
    THEN POk([lx |-> r.lx, cur |-> r.tok, cur_pos |-> r.pos], NoVal)
    ELSE IF r.kind = "err"
    THEN PErr([p EXCEPT !.lx = r.lx], ErrLex(r.msg, r.pos))
    ELSE PPanic([p EXCEPT !.lx = r.lx])

Parser_new(l) == FromLex([NoParser EXCEPT !.lx = l], next_token(l))

Parser_bump(p) == FromLex(p, next_token(p.lx))

\* expect moving on to the next token whether the current one matched or not
expect_SkipUnmatched(p, want, name) ==
    IF p.cur.tag = want
    THEN Parser_bump(p)
    ELSE PErr(Parser_bump(p).p, ErrUnexpected(p.cur, name, p.cur_pos))

expect(p, want, name) ==
    IF p.cur.tag = want
    THEN Parser_bump(p)
    ELSE PErr(p, ErrUnexpected(p.cur, name, p.cur_pos))

\* the ? operator (parser.rs 95, 109, ...): a failed step is returned as it is,
\* a successful one is handed to the rest of the method
Try(r, Rest(_)) == IF r.kind # "ok" THEN PFail(r) ELSE Rest(r)

\* a run of expect(..)? calls; wants is a sequence of <<tag, name>>
RECURSIVE expect_all(_, _)
expect_all(p, wants) ==
    IF wants = <<>> THEN POk(p, NoVal)
    ELSE Try(expect(p, Head(wants)[1], Head(wants)[2]),
             LAMBDA r : expect_all(r.p, Tail(wants)))

ErrNoPath(p) ==
    ErrUnexpected(p.cur, ExpText("a path string after 'import'"), p.cur_pos)

RECURSIVE parse_imports_loop(_, _)
parse_imports_loop(p, paths) ==
    IF p.cur.tag = "Import"
    THEN Try(Parser_bump(p), LAMBDA b1 :
            IF b1.p.cur.tag = "Str"
            THEN Try(Parser_bump(b1.p), LAMBDA b2 :
                    parse_imports_loop(b2.p, Append(paths, b1.p.cur.text)))
            ELSE PErr(b1.p, ErrNoPath(b1.p)))
    ELSE POk(p, [imports |-> paths, stmts |-> <<>>])

parse_imports(p) == parse_imports_loop(p, <<>>)

ErrNoString(p) ==
    ErrUnexpected(p.cur, ExpText("a string \"...\" after log("), p.cur_pos)

parse_log(p) ==
    Try(expect_all(p, << <<"Log", ExpLit(KW_LOG)>>, <<"LParen", ExpLit(LPAREN)>> >>),
        LAMBDA r1 :
           IF r1.p.cur.tag = "Str"
           THEN Try(Parser_bump(r1.p), LAMBDA r2 :
                Try(expect(r2.p, "RParen", ExpLit(RPAREN)), LAMBDA r3 :
                    POk(r3.p, [imports |-> <<>>, stmts |-> <<StmtLog(r1.p.cur.text)>>])))
           ELSE PErr(r1.p, ErrNoString(r1.p)))

ErrNoName(p) ==
    ErrUnexpected(p.cur, ExpText("function name after 'call'"), p.cur_pos)

parse_call(p) ==
    Try(expect(p, "Call", ExpLit(KW_CALL)), LAMBDA r1 :
        IF r1.p.cur.tag = "Ident"
        THEN Try(Parser_bump(r1.p), LAMBDA r2 :
             Try(expect_all(r2.p, << <<"LParen", ExpLit(LPAREN)>>,
                                     <<"RParen", ExpLit(RPAREN)>> >>), LAMBDA r3 :
                 POk(r3.p, [imports |-> <<>>, stmts |-> <<StmtCall(r1.p.cur.text)>>])))
        ELSE PErr(r1.p, ErrNoName(r1.p)))

\* parse_stmt passing over what is not a statement, without consuming it
parse_stmt_Lenient(p) ==
    IF p.cur.tag = "Call" THEN parse_call(p)
    ELSE IF p.cur.tag = "Log" THEN parse_log(p)
    ELSE POk(p, NoVal)

\* returns the statement as the one-element list val.stmts
parse_stmt(p) ==
    IF p.cur.tag = "Call" THEN parse_call(p)
    ELSE IF p.cur.tag = "Log" THEN parse_log(p)
    ELSE PErr(p, ErrUnexpected(p.cur, ExpText("'log'"), p.cur_pos))

\* while !matches!(self.cur, Token::RBrace) { stmts.push(self.parse_stmt()?) }
RECURSIVE parse_block_loop(_, _)
\* the statement block built by insertion at the front
parse_block_loop_Prepend(p, stmts) ==
    IF p.cur.tag = "RBrace" THEN POk(p, [imports |-> <<>>, stmts |-> stmts])
    ELSE Try(parse_stmt(p), LAMBDA r : parse_block_loop(r.p, r.val.stmts \o stmts))

parse_block_loop(p, stmts) ==
    IF p.cur.tag = "RBrace" THEN POk(p, [imports |-> <<>>, stmts |-> stmts])
    ELSE Try(parse_stmt(p), LAMBDA r : parse_block_loop(r.p, stmts \o r.val.stmts))

\* parse_main_program returning after the closing brace, without
\* self.expect(Token::Eof, grammar::EOF)
parse_main_program_NoEof(p) ==
    Try(parse_imports(p), LAMBDA ri :
    Try(expect_all(ri.p, << <<"Fn", ExpLit(KW_FN)>>, <<"Main", ExpLit(KW_MAIN)>>,
                            <<"LParen", ExpLit(LPAREN)>>, <<"RParen", ExpLit(RPAREN)>>,
                            <<"LBrace", ExpLit(LBRACE)>> >>), LAMBDA rh :
    Try(parse_block_loop(rh.p, <<>>), LAMBDA rb :
    Try(expect(rb.p, "RBrace", ExpLit(RBRACE)), LAMBDA re :
           POk(re.p, [imports |-> ri.val.imports, stmts |-> rb.val.stmts])))))

parse_main_program(p) ==
    Try(parse_imports(p), LAMBDA ri :
    Try(expect_all(ri.p, << <<"Fn", ExpLit(KW_FN)>>, <<"Main", ExpLit(KW_MAIN)>>,
                            <<"LParen", ExpLit(LPAREN)>>, <<"RParen", ExpLit(RPAREN)>>,
                            <<"LBrace", ExpLit(LBRACE)>> >>), LAMBDA rh :
    Try(parse_block_loop(rh.p, <<>>), LAMBDA rb :
    Try(expect_all(rb.p, << <<"RBrace", ExpLit(RBRACE)>>, <<"Eof", ExpText(EOF)>> >>),
        LAMBDA re :
           POk(re.p, [imports |-> ri.val.imports, stmts |-> rb.val.stmts])))))

ErrNoImport(p) ==
    ErrUnexpected(p.cur, ExpText("no 'import' in an included file (only in main program)"),
                  p.cur_pos)

RECURSIVE parse_sub_loop(_, _)
\* parse_sub_programs without the test for the import token
parse_sub_loop_NoImportTest(p, stmts) ==
    IF p.cur.tag = "Eof" THEN POk(p, [imports |-> <<>>, stmts |-> stmts])
    ELSE Try(parse_stmt(p), LAMBDA r : parse_sub_loop(r.p, stmts \o r.val.stmts))

parse_sub_loop(p, stmts) ==
    IF p.cur.tag = "Eof" THEN POk(p, [imports |-> <<>>, stmts |-> stmts])
    ELSE IF p.cur.tag = "Import" THEN PErr(p, ErrNoImport(p))
    ELSE Try(parse_stmt(p), LAMBDA r : parse_sub_loop(r.p, stmts \o r.val.stmts))

parse_sub_programs(p) ==
    Try(parse_sub_loop(p, <<>>), LAMBDA rb :
    Try(expect(rb.p, "Eof", ExpText(EOF)), LAMBDA re :
        POk(re.p, rb.val)))

---------------------------------------------------------------------------
(* Spec: one lexer, next_token called up to MaxCalls times.                *)

\* pieces the lexer inputs are made of: the reserved words, an identifier
\* differing in case from one, letters, a digit, whitespace, the quote,
\* symbols, a byte no token starts with, a two-byte UTF-8 character
LexChunks ==
    { KW_IMPORT, KW_FN, KW_MAIN, KW_LOG, KW_CALL, <<76, 111, 103>>,
      <<120>>, <<95>>, <<49>>,
      <<SPACE>>, <<TAB>>, <<CR>>, <<LF>>, <<QUOTE>>,
      LPAREN, RPAREN, LBRACE, RBRACE, COMMA,
      <<64>>, <<195, 169>> }

RECURSIVE ChunkSeqs(_, _)
ChunkSeqs(S, n) ==
    IF n = 0 THEN {<<>>}
    ELSE LET shorter == ChunkSeqs(S, n - 1) IN
         shorter \cup {c \o s : c \in S, s \in shorter}

LexInputs == ChunkSeqs(LexChunks, MaxChunks)

StdinName == "<stdin>"

\* no file system, and main() not returned yet
NoDisk == [dirs |-> {}, files |-> <<>>]
NoExit == [status |-> "running", path |-> <<>>, err |-> NoErr]

IdleParser ==
    /\ psrc = <<>> /\ parser = NoParser /\ pres = NoResult
    /\ ppc = "idle" /\ pacc = NoVal
IdleDriver ==
    /\ root_path = <<>> /\ disk = NoDisk /\ pc = "idle" /\ imports = <<>>
    /\ root_prog = <<>> /\ idx = 0 /\ seen = {} /\ imported_stmts = <<>>
    /\ reads = <<>> /\ loaded = <<>> /\ result = NoExit
IdleLexer == lx = with_file(StdinName, <<>>) /\ rets = <<>>

Init ==
    /\ \E input \in LexInputs : lx = with_file(StdinName, input)
    /\ rets = <<>>
    /\ IdleParser
    /\ IdleDriver

NextToken ==
    /\ Len(rets) < MaxCalls
    /\ LET r == next_token(lx) IN
       /\ lx' = r.lx
       /\ rets' = Append(rets, Returned(r))
    /\ UNCHANGED <<parVars, stepVars, drvVars>>

Next == NextToken

Spec == Init /\ [][Next]_vars

---------------------------------------------------------------------------
(* SpecParser: a source text, Parser::new on its lexer, then one of the    *)
(* two grammar entry points.                                               *)


\* lines the parser sources are made of
LineImportA == KW_IMPORT \o <<SPACE, QUOTE, 97, QUOTE>>
LineImportB == KW_IMPORT \o <<SPACE, QUOTE, 46, 47, 97, QUOTE>>
LineHead == KW_FN \o <<SPACE>> \o KW_MAIN \o LPAREN \o RPAREN \o LBRACE
LineClose == RBRACE
LineLog == KW_LOG \o LPAREN \o <<QUOTE, 104, 105, QUOTE>> \o RPAREN
LineCall == KW_CALL \o <<SPACE, 102, 111, 111>> \o LPAREN \o RPAREN
SourceLines ==
    { LineImportA, LineImportB, LineHead, LineClose, LineLog, LineCall,
      KW_IMPORT, KW_LOG, KW_CALL, RPAREN, <<64>>, <<QUOTE>> }

RECURSIVE LineSeqs(_, _)
LineSeqs(S, n) ==
    IF n = 0 THEN {<<>>}
    ELSE LET shorter == LineSeqs(S, n - 1) IN
         shorter \cup {<<c>> \o s : c \in S, s \in shorter}

\* the lines, each followed by a line feed
RECURSIVE JoinLines(_)
JoinLines(ls) == IF ls = <<>> THEN <<>> ELSE Head(ls) \o <<LF>> \o JoinLines(Tail(ls))

ParserInputs == {JoinLines(ls) : ls \in LineSeqs(SourceLines, MaxLines)}

SourceName == "src.gfr"

InitParser ==
    /\ psrc \in ParserInputs
    /\ parser = NoParser
    /\ pres = NoResult
    /\ ppc = "idle" /\ pacc = NoVal
    /\ IdleLexer
    /\ IdleDriver

ParserNew ==
    /\ parser = NoParser /\ pres = NoResult
    /\ LET r == Parser_new(with_file(SourceName, psrc)) IN
       IF r.kind = "ok"
       THEN parser' = r.p /\ pres' = pres
       ELSE parser' = parser /\ pres' = Result("new", r)
    /\ UNCHANGED <<psrc, stepVars, lexVars, drvVars>>

ParseMainProgram ==
    /\ parser # NoParser /\ pres = NoResult
    /\ LET r == parse_main_program(parser) IN
       parser' = r.p /\ pres' = Result("main", r)
    /\ UNCHANGED <<psrc, stepVars, lexVars, drvVars>>

ParseSubPrograms ==
    /\ parser # NoParser /\ pres = NoResult
    /\ LET r == parse_sub_programs(parser) IN
       parser' = r.p /\ pres' = Result("sub", r)
    /\ UNCHANGED <<psrc, stepVars, lexVars, drvVars>>

NextParser == ParserNew \/ ParseMainProgram \/ ParseSubPrograms

SpecParser == InitParser /\ [][NextParser]_vars

---------------------------------------------------------------------------
(* SpecSteps: the grammar entry points taken one step of their code at a   *)
(* time.  ppc is the place in parse_main_program or parse_sub_programs: a  *)
(* loop test, a loop body, an expect(..)? line, or the final Ok(..); pacc   *)
(* holds the local lists.  The thread runs on until the entry returns      *)
(* (fairness).                                                             *)

StepInputs == {JoinLines(ls) : ls \in LineSeqs(SourceLines, MaxStepLines)}

\* the expect(..)? lines of parse_main_program (parser.rs 111-115, 120-121)
\* and of parse_sub_programs (parser.rs 183): what is wanted, its name, and
\* the place that follows
ExpectSite(want, name, next) == [want |-> want, name |-> name, next |-> next]
ExpectSites ==
    [at \in {"fn", "main", "lparen", "rparen", "lbrace", "rbrace", "eof", "sub_eof"} |->
        CASE at = "fn" -> ExpectSite("Fn", ExpLit(KW_FN), "main")
          [] at = "main" -> ExpectSite("Main", ExpLit(KW_MAIN), "lparen")
          [] at = "lparen" -> ExpectSite("LParen", ExpLit(LPAREN), "rparen")
          [] at = "rparen" -> ExpectSite("RParen", ExpLit(RPAREN), "lbrace")
          [] at = "lbrace" -> ExpectSite("LBrace", ExpLit(LBRACE), "block")
          [] at = "rbrace" -> ExpectSite("RBrace", ExpLit(RBRACE), "eof")
          [] at = "eof" -> ExpectSite("Eof", ExpText(EOF), "ret")
          [] at = "sub_eof" -> ExpectSite("Eof", ExpText(EOF), "sub_ret")]

\* the entry point a place belongs to
EntryOf(at) == IF at \in {"sub", "sub_stmt", "sub_eof", "sub_ret"} THEN "sub" ELSE "main"

\* one turn of the loop of parse_imports on an import token (parser.rs 130-142)
import_one(p) ==
    Try(Parser_bump(p), LAMBDA b1 :
        IF b1.p.cur.tag = "Str"
        THEN Try(Parser_bump(b1.p), LAMBDA b2 :
                POk(b2.p, [imports |-> <<b1.p.cur.text>>, stmts |-> <<>>]))
        ELSE PErr(b1.p, ErrNoPath(b1.p)))

InitSteps ==
    /\ psrc \in StepInputs
    /\ parser = NoParser
    /\ pres = NoResult
    /\ ppc = "new" /\ pacc = NoVal
    /\ IdleLexer
    /\ IdleDriver

\* a step whose call gave r: on Ok the entry goes on at next, what r carries
\* pushed on the local lists; otherwise '?' returns r's error from the entry
StepGot(r, next) ==
    IF r.kind = "ok"
    THEN /\ parser' = r.p
         /\ ppc' = next
         /\ pacc' = [imports |-> pacc.imports \o r.val.imports,
                     stmts |-> pacc.stmts \o r.val.stmts]
         /\ pres' = pres
    ELSE /\ parser' = r.p
         /\ ppc' = "done"
         /\ pacc' = pacc
         /\ pres' = Result(EntryOf(ppc), r)

\* a test that leaves a loop
StepTo(next) == ppc' = next /\ UNCHANGED <<parser, pres, pacc>>

StepNewGot(r) ==
    IF r.kind = "ok"
    THEN parser' = r.p /\ ppc' = "entry" /\ UNCHANGED <<pres, pacc>>
    ELSE pres' = Result("new", r) /\ ppc' = "done" /\ UNCHANGED <<parser, pacc>>

\* Parser::new
StepNew ==
    /\ ppc = "new"
    /\ StepNewGot(Parser_new(with_file(SourceName, psrc)))
    /\ UNCHANGED <<psrc, lexVars, drvVars>>

\* the caller takes the file as a main program, or as an included file
EnterMain ==
    /\ ppc = "entry"
    /\ StepTo("imports")
    /\ UNCHANGED <<psrc, lexVars, drvVars>>

EnterSub ==
    /\ ppc = "entry"
    /\ StepTo("sub")
    /\ UNCHANGED <<psrc, lexVars, drvVars>>

\* parse_imports: the test of its loop (parser.rs 130)
ImportsIter ==
    /\ ppc = "imports"
    /\ IF parser.cur.tag = "Import" THEN StepTo("import") ELSE StepTo("fn")
    /\ UNCHANGED <<psrc, lexVars, drvVars>>

\* parse_imports: the body of its loop
ImportStep ==
    /\ ppc = "import"
    /\ StepGot(import_one(parser), "imports")
    /\ UNCHANGED <<psrc, lexVars, drvVars>>

\* one of the expect(..)? lines
ExpectStep ==
    /\ ppc \in DOMAIN ExpectSites
    /\ StepGot(expect(parser, ExpectSites[ppc].want, ExpectSites[ppc].name),
               ExpectSites[ppc].next)
    /\ UNCHANGED <<psrc, lexVars, drvVars>>

\* parse_main_program: the test of the loop over the block (parser.rs 117)
BlockIter ==
    /\ ppc = "block"
    /\ IF parser.cur.tag = "RBrace" THEN StepTo("rbrace") ELSE StepTo("stmt")
    /\ UNCHANGED <<psrc, lexVars, drvVars>>

\* stmts.push(self.parse_stmt()?) (parser.rs 118)
BlockStmt ==
    /\ ppc = "stmt"
    /\ StepGot(parse_stmt(parser), "block")
    /\ UNCHANGED <<psrc, lexVars, drvVars>>

\* parse_sub_programs: the test of its loop (parser.rs 172)
SubIter ==
    /\ ppc = "sub"
    /\ IF parser.cur.tag = "Eof" THEN StepTo("sub_eof") ELSE StepTo("sub_stmt")
    /\ UNCHANGED <<psrc, lexVars, drvVars>>

\* the body of that loop: an import is refused, a statement is pushed
\* (parser.rs 173-181)
SubStmt ==
    /\ ppc = "sub_stmt"
    /\ IF parser.cur.tag = "Import"
       THEN StepGot(PErr(parser, ErrNoImport(parser)), "sub")
       ELSE StepGot(parse_stmt(parser), "sub")
    /\ UNCHANGED <<psrc, lexVars, drvVars>>

\* Ok((imports, Program { stmts })) and Ok(stmts)
ReturnOk ==
    /\ ppc \in {"ret", "sub_ret"}
    /\ pres' = Result(EntryOf(ppc), POk(parser, pacc))
    /\ ppc' = "done"
    /\ UNCHANGED <<parser, pacc, psrc, lexVars, drvVars>>

NextSteps ==
    \/ StepNew \/ EnterMain \/ EnterSub \/ ImportsIter \/ ImportStep \/ ExpectStep
    \/ BlockIter \/ BlockStmt \/ SubIter \/ SubStmt \/ ReturnOk

\* the places of the entry points
Places ==
    {"new", "entry", "imports", "import", "block", "stmt", "sub", "sub_stmt",
     "ret", "sub_ret", "done"} \cup DOMAIN ExpectSites

\* the thread is not held up: until the entry has returned it moves on to
\* some place of its code
Proceed == ppc # "done" /\ ppc' \in Places

SpecSteps == InitSteps /\ [][NextSteps]_vars /\ WF_ppc(Proceed)

---------------------------------------------------------------------------
(* Paths (std::path as main.rs uses it) and the file system.               *)

SLASH == 47
DOT == 46

\* the pieces of a path between separators, empty ones included
RECURSIVE SplitPath(_, _)
SplitPath(s, piece) ==
    IF s = <<>> THEN <<piece>>
    ELSE IF Head(s) = SLASH THEN <<piece>> \o SplitPath(Tail(s), <<>>)
    ELSE SplitPath(Tail(s), Append(piece, Head(s)))

\* Path::components: repeated separators and "." are normalised away, except
\* a "." that starts a relative path; ".." is kept
RECURSIVE NormalPieces(_, _)
NormalPieces(pieces, keepDot) ==
    IF pieces = <<>> THEN <<>>
    ELSE IF Head(pieces) = <<>> THEN NormalPieces(Tail(pieces), FALSE)
    ELSE IF Head(pieces) = <<DOT>> /\ ~keepDot THEN NormalPieces(Tail(pieces), FALSE)
    ELSE <<Head(pieces)>> \o NormalPieces(Tail(pieces), FALSE)

HasRoot(path) == path # <<>> /\ path[1] = SLASH

Components(path) ==
    IF HasRoot(path)
    THEN << <<SLASH>> >> \o NormalPieces(SplitPath(path, <<>>), FALSE)
    ELSE NormalPieces(SplitPath(path, <<>>), TRUE)

\* PathBuf's Eq and Hash compare components: the key of the HashSet
PathKey(path) == Components(path)

NoPath == <<0>>

LastSlash(path) ==
    IF \E k \in 1..Len(path) : path[k] = SLASH
    THEN CHOOSE k \in 1..Len(path) :
            path[k] = SLASH /\ \A j \in (k + 1)..Len(path) : path[j] # SLASH
    ELSE 0

\* Path::parent: the path without its final component; None for an empty
\* path or a root
parent(path) ==
    IF Components(path) = <<>> \/ Components(path) = << <<SLASH>> >> THEN NoPath
    ELSE IF LastSlash(path) = 0 THEN <<>>
    ELSE IF LastSlash(path) = 1 THEN <<SLASH>>
    ELSE SubSeq(path, 1, LastSlash(path) - 1)

\* Path::join
join(base, rel) ==
    IF HasRoot(rel) THEN rel
    ELSE IF base = <<>> THEN rel
    ELSE IF base[Len(base)] = SLASH THEN base \o rel
    ELSE base \o <<SLASH>> \o rel

base_dir(base_file) ==
    IF parent(base_file) = NoPath THEN <<DOT>> ELSE parent(base_file)

\* a component list with "." and "name/.." resolved: the location a directory
\* path names when every directory on it exists
RECURSIVE Collapse(_, _)
Collapse(comps, acc) ==
    IF comps = <<>> THEN acc
    ELSE IF Head(comps) = <<DOT>> THEN Collapse(Tail(comps), acc)
    ELSE IF Head(comps) = <<DOT, DOT>> /\ acc # <<>> /\ acc[Len(acc)] # <<DOT, DOT>>
    THEN Collapse(Tail(comps), SubSeq(acc, 1, Len(acc) - 1))
    ELSE Collapse(Tail(comps), Append(acc, Head(comps)))

resolve_rel(base_file, rel) == join(base_dir(base_file), rel)

\* the deduplication key of main.rs 37: the resolved PathBuf
dedup_key(full) == PathKey(full)

\* Path::with_extension, for the default output path
LastDot(path) ==
    IF \E k \in (LastSlash(path) + 2)..Len(path) : path[k] = DOT
    THEN CHOOSE k \in (LastSlash(path) + 2)..Len(path) :
            path[k] = DOT /\ \A j \in (k + 1)..Len(path) : path[j] # DOT
    ELSE Len(path) + 1
with_extension(path, ext) == SubSeq(path, 1, LastDot(path) - 1) \o <<DOT>> \o ext

\* The file system is {dirs, files}: the directories and the file contents,
\* by location (the names from the working directory down).  The operating
\* system walks a path component by component.
NoLoc == << <<0>> >>

RECURSIVE Walk(_, _, _)
Walk(d, comps, at) ==
    IF at = NoLoc \/ comps = <<>> THEN at
    ELSE IF at \notin d.dirs THEN NoLoc
    ELSE IF Head(comps) = <<DOT>> THEN Walk(d, Tail(comps), at)
    ELSE IF Head(comps) = <<DOT, DOT>>
    THEN IF at = <<>> THEN NoLoc ELSE Walk(d, Tail(comps), SubSeq(at, 1, Len(at) - 1))
    ELSE Walk(d, Tail(comps), Append(at, Head(comps)))

\* where a relative path leads from the working directory (absolute paths
\* are outside the modelled tree)
Locate(d, path) == IF HasRoot(path) THEN NoLoc ELSE Walk(d, Components(path), <<>>)

IsFile(d, path) == Locate(d, path) \in DOMAIN d.files

\* fs::read_to_string
read_to_string(d, path) ==
    IF IsFile(d, path)
    THEN [ok |-> TRUE, text |-> d.files[Locate(d, path)]]
    ELSE [ok |-> FALSE, text |-> <<>>]

\* fs::write: creates or replaces the file when its directory exists
CanWrite(d, path) == Locate(d, path) # NoLoc /\ Locate(d, path) \notin d.dirs
write(d, path, text) ==
    [d EXCEPT !.files = [loc \in DOMAIN d.files \cup {Locate(d, path)} |->
                            IF loc = Locate(d, path) THEN text ELSE d.files[loc]]]

---------------------------------------------------------------------------
(* SpecDriver: main() of main.rs.                                          *)

ExitOk == [status |-> "ok", path |-> <<>>, err |-> NoErr]
ExitIo(path) == [status |-> "io error", path |-> path, err |-> NoErr]
ExitParse(path, r) == [status |-> IF r.kind = "panic" THEN "panic" ELSE "parse error",
                       path |-> path, err |-> r.err]

\* let wat = "test"
Wat == <<116, 101, 115, 116>>
WatExt == <<119, 97, 116>>

\* Lexer::with_file, Parser::new and the grammar entry point on a file's text
front_main(path, text) ==
    Try(Parser_new(with_file(path, text)), LAMBDA r : parse_main_program(r.p))
front_sub(path, text) ==
    Try(Parser_new(with_file(path, text)), LAMBDA r : parse_sub_programs(r.p))

\* --- inputs: the root file, what it imports, what is on the disk
RootM == <<109>>
RootDM == <<100, 47, 109>>
RootPaths == {RootM, RootDM}

RelA == <<97>>
RelDotA == <<46, 47, 97>>
RelSubA == <<115, 47, 46, 46, 47, 97>>
RelB == <<98>>
RelZ == <<122>>
ImportRels == {RelA, RelDotA, RelSubA, RelB, RelZ}

ImportLine(rel) == KW_IMPORT \o <<SPACE, QUOTE>> \o rel \o <<QUOTE>>
\* after the imports: two whole main functions, one never closed, one followed
\* by a byte no token starts with
RootTails ==
    { <<LineHead, LineClose>>, <<LineHead, LineLog, LineClose>>, <<LineHead>>,
      <<LineHead, LineClose, <<64>> >> }
RootText(rels, tail) ==
    JoinLines([k \in 1..Len(rels) |-> ImportLine(rels[k])] \o tail)

TextsA == { JoinLines(<<LineLog>>), JoinLines(<<LineCall, LineLog>>) }
\* b.gfr: a statement, an import (not allowed there), or a statement followed
\* by a byte no token starts with
TextsB == { JoinLines(<<LineCall>>), JoinLines(<<LineImportA>>),
            JoinLines(<<LineLog, <<64>> >>) }

\* the directory of the root file holds it, a.gfr, b.gfr and a directory s
DirLoc(root) == Collapse(Components(base_dir(root)), <<>>)
DiskOf(root, rootText, textA, textB) ==
    [dirs |-> {<<>>, DirLoc(root), Append(DirLoc(root), <<115>>)},
     files |-> [loc \in {Append(DirLoc(root), <<109>>), Append(DirLoc(root), RelA),
                         Append(DirLoc(root), RelB)} |->
                  IF loc = Append(DirLoc(root), <<109>>) THEN rootText
                  ELSE IF loc = Append(DirLoc(root), RelA) THEN textA
                  ELSE textB]]

InitDriver ==
    /\ root_path \in RootPaths
    /\ \E rels \in LineSeqs(ImportRels, MaxImports), tail \in RootTails,
          textA \in TextsA, textB \in TextsB :
          disk = DiskOf(root_path, RootText(rels, tail), textA, textB)
    /\ pc = "start"
    /\ imports = <<>> /\ root_prog = <<>> /\ idx = 0 /\ seen = {}
    /\ imported_stmts = <<>> /\ reads = <<>> /\ loaded = <<>>
    /\ result = NoExit
    /\ IdleLexer
    /\ IdleParser

\* main.rs 29-30, r being what Parser::new and parse_main_program gave
ParseRootGot(r) ==
    IF r.kind # "ok"
    THEN /\ result' = ExitParse(root_path, r) /\ pc' = "exit"
         /\ UNCHANGED <<imports, root_prog>>
    ELSE /\ imports' = r.val.imports
         /\ root_prog' = r.val.stmts
         /\ pc' = "imports"
         /\ UNCHANGED result

\* main.rs 27-30 going on to the imports as soon as the import lines of the
\* root are parsed, the rest of the root not looked at
ParseRootRead_ImportsFirst(rd) ==
    IF ~rd.ok
    THEN /\ result' = ExitIo(root_path) /\ pc' = "exit"
         /\ UNCHANGED <<imports, root_prog>>
    ELSE ParseRootGot(Try(Parser_new(with_file(root_path, rd.text)),
                          LAMBDA r : parse_imports(r.p)))

\* main.rs 27, rd being what fs::read_to_string gave
ParseRootRead(rd) ==
    IF ~rd.ok
    THEN /\ result' = ExitIo(root_path) /\ pc' = "exit"
         /\ UNCHANGED <<imports, root_prog>>
    ELSE ParseRootGot(front_main(root_path, rd.text))

\* main.rs 26-34: read and parse the root file
ParseRoot ==
    /\ pc = "start"
    /\ reads' = Append(reads, root_path)
    /\ ParseRootRead(read_to_string(disk, root_path))
    /\ UNCHANGED <<root_path, disk, idx, seen, imported_stmts, loaded, lexVars, parVars,
                   stepVars>>

\* main.rs 44 with the part put in front of the accumulated list
AppendPart_Front(rel, full, part) ==
    /\ imported_stmts' = part \o imported_stmts
    /\ loaded' = Append(loaded, [rel |-> rel, path |-> full, part |-> part])
    /\ idx' = idx + 1
    /\ UNCHANGED <<result, pc>>

\* main.rs 44: imported_stmts.append(&mut part)
AppendPart(rel, full, part) ==
    /\ imported_stmts' = imported_stmts \o part
    /\ loaded' = Append(loaded, [rel |-> rel, path |-> full, part |-> part])
    /\ idx' = idx + 1
    /\ UNCHANGED <<result, pc>>

\* main.rs 41-44, r being what Parser::new and parse_sub_programs gave
LoadFileGot(rel, full, r) ==
    IF r.kind # "ok"
    THEN /\ result' = ExitParse(full, r) /\ pc' = "exit"
         /\ UNCHANGED <<idx, imported_stmts, loaded>>
    ELSE AppendPart(rel, full, r.val.stmts)

\* main.rs 40 with a file that cannot be read skipped instead of returned
LoadFileRead_SkipUnreadable(rel, full, rd) ==
    IF ~rd.ok
    THEN /\ idx' = idx + 1
         /\ UNCHANGED <<result, pc, imported_stmts, loaded>>
    ELSE LoadFileGot(rel, full, front_sub(full, rd.text))

\* main.rs 40, rd being what fs::read_to_string gave
LoadFileRead(rel, full, rd) ==
    IF ~rd.ok
    THEN /\ result' = ExitIo(full) /\ pc' = "exit"
         /\ UNCHANGED <<idx, imported_stmts, loaded>>
    ELSE LoadFileGot(rel, full, front_sub(full, rd.text))

\* main.rs 40-44, for the import rel resolved to full
LoadFile(rel, full) ==
    /\ reads' = Append(reads, full)
    /\ LoadFileRead(rel, full, read_to_string(disk, full))

\* the loop body without the test of seen
LoadImportOf_NoDedup(rel, full) ==
    /\ seen' = seen \cup {dedup_key(full)}
    /\ LoadFile(rel, full)

\* main.rs 35-45: one iteration of the loop over imports
LoadImportOf(rel, full) ==
    /\ seen' = seen \cup {dedup_key(full)}
    /\ IF dedup_key(full) \in seen
       THEN /\ idx' = idx + 1
            /\ UNCHANGED <<reads, result, pc, imported_stmts, loaded>>
       ELSE LoadFile(rel, full)

LoadImport ==
    /\ pc = "imports"
    /\ idx < Len(imports)
    /\ LoadImportOf(imports[idx + 1], resolve_rel(root_path, imports[idx + 1]))
    /\ UNCHANGED <<root_path, disk, imports, root_prog, lexVars, parVars, stepVars>>

\* env::args().nth(2): the run is started without an output path
OutArg == NoPath

out_file(root) == IF OutArg = NoPath THEN with_extension(root, WatExt) ELSE OutArg

\* main.rs 47-53: write the output
WriteOutput ==
    /\ pc = "imports"
    /\ idx = Len(imports)
    /\ IF CanWrite(disk, out_file(root_path))
       THEN disk' = write(disk, out_file(root_path), Wat) /\ result' = ExitOk
       ELSE disk' = disk /\ result' = ExitIo(out_file(root_path))
    /\ pc' = "exit"
    /\ UNCHANGED <<root_path, imports, root_prog, idx, seen, imported_stmts, reads,
                   loaded, lexVars, parVars, stepVars>>

NextDriver == ParseRoot \/ LoadImport \/ WriteOutput

SpecDriver == InitDriver /\ [][NextDriver]_vars

---------------------------------------------------------------------------
(* Lexer claims, stated on the input and the values returned so far.       *)

Input == lx.input
NCalls == Len(rets)

AllWs(s) == \A k \in 1..Len(s) : s[k] \in {32, 9, 13, 10}
LastLF(s) ==
    LET nl == {k \in 1..Len(s) : s[k] = 10} IN
    IF nl = {} THEN 0 ELSE CHOOSE k \in nl : \A j \in nl : j <= k
\* the position after every byte of s has been consumed
EndPos(s) ==
    [byte |-> Len(s),
     line |-> 1 + Cardinality({k \in 1..Len(s) : s[k] = 10}),
     col |-> 1 + Len(s) - LastLF(s),
     file |-> StdinName]
StartPos == [byte |-> 0, line |-> 1, col |-> 1, file |-> StdinName]

OkRet(tok, pos) == [kind |-> "ok", tok |-> tok, pos |-> pos, msg |-> NoMsg]
ErrRet(msg, pos) == [kind |-> "err", tok |-> NoTok, pos |-> pos, msg |-> msg]
IsEofRet(r) == r.kind = "ok" /\ r.tok.tag = "Eof"

\* C1: on an input of whitespace only the first next_token returns Eof; and
\* once a call has returned Eof, its position is the end of the input (byte =
\* length, line and column as the consumed bytes account for) and every later
\* call returns the same Ok(Eof) at the same position.
C1_EofAbsorbing ==
    /\ (AllWs(Input) /\ NCalls >= 1) => IsEofRet(rets[1])
    /\ \A k \in 1..NCalls :
          IsEofRet(rets[k]) =>
             /\ rets[k] = OkRet(Tok("Eof"), EndPos(Input))
             /\ \A j \in k..NCalls : rets[j] = rets[k]

C1_Witness ==
    /\ AllWs(Input) /\ Len(Input) = 3 /\ Input[2] = 10 /\ Input[1] = 13
    /\ NCalls = 3
    /\ IsEofRet(rets[3])

IsQuoted(s) ==
    /\ Len(s) >= 2
    /\ s[1] = 34 /\ s[Len(s)] = 34
    /\ \A k \in 2..(Len(s) - 1) : s[k] # 34
Unquoted(s) == SubSeq(s, 2, Len(s) - 1)

\* C2: the source quote + s + quote, s without a quote byte, lexes to Str(s)
\* on the first call and to Eof on the second.
C2_QuotedString ==
    IsQuoted(Input) =>
       /\ NCalls >= 1 => rets[1] = OkRet(TokText("Str", Unquoted(Input)), StartPos)
       /\ NCalls >= 2 => IsEofRet(rets[2])

C2_Witness ==
    /\ IsQuoted(Input) /\ Unquoted(Input) = <<10>>
    /\ NCalls = 2
    /\ rets[1].tok = TokText("Str", <<10>>)

Letters == (65..90) \cup (97..122)
IsIdentText(s) ==
    /\ Len(s) >= 1
    /\ s[1] \in Letters \cup {95}
    /\ \A k \in 1..Len(s) : s[k] \in Letters \cup {95} \cup (48..57)
Reserved == {KW_IMPORT, KW_FN, KW_MAIN, KW_LOG, KW_CALL}

\* C3: an identifier that is not exactly a reserved word lexes to one Ident
\* token carrying the identical text, then Eof.
C3_IdentExactText ==
    (IsIdentText(Input) /\ Input \notin Reserved) =>
       /\ NCalls >= 1 => rets[1] = OkRet(TokText("Ident", Input), StartPos)
       /\ NCalls >= 2 => IsEofRet(rets[2])

\* mainx
C3_Witness ==
    /\ Input = KW_MAIN \o <<120>>
    /\ NCalls = 2
    /\ rets[1].tok = TokText("Ident", Input)

KeywordTag(s) ==
    CASE s = KW_IMPORT -> "Import"
      [] s = KW_FN -> "Fn"
      [] s = KW_MAIN -> "Main"
      [] s = KW_LOG -> "Log"
      [] s = KW_CALL -> "Call"

KeywordTags == {"Import", "Fn", "Main", "Log", "Call"}

\* C4: each reserved word alone lexes to its keyword token, then Eof; an
\* identifier run that is not exactly a reserved word (another case, a longer
\* run) never gives a keyword token.
C4_KeywordAlone ==
    /\ Input \in Reserved =>
          /\ NCalls >= 1 => rets[1] = OkRet(Tok(KeywordTag(Input)), StartPos)
          /\ NCalls >= 2 => IsEofRet(rets[2])
    /\ (IsIdentText(Input) /\ Input \notin Reserved /\ NCalls >= 1) =>
          rets[1].tok.tag \notin KeywordTags

C4_Witness ==
    /\ Input = KW_CALL
    /\ NCalls = 2
    /\ rets[1].tok = Tok("Call") /\ IsEofRet(rets[2])

\* offset of the first byte at or after offset i that is not whitespace
RECURSIVE NextNonWs(_, _)
NextNonWs(s, i) ==
    IF i < Len(s) /\ s[i + 1] \in {32, 9, 13, 10} THEN NextNonWs(s, i + 1) ELSE i

\* the lexer cursor, whitespace apart, is on a quote that is never closed
AtUnclosedQuote ==
    LET q == NextNonWs(Input, lx.i) IN
    /\ q < Len(Input)
    /\ Input[q + 1] = 34
    /\ \A k \in (q + 2)..Len(Input) : Input[k] # 34

\* C5: a next_token call that finds an opening quote with no closing quote
\* before the end of input returns the "incomplete string" error positioned
\* at the end of input, never a token.
C5_UnterminatedString ==
    [][AtUnclosedQuote =>
          rets'[Len(rets')] = ErrRet(MsgIncomplete, EndPos(Input))]_vars

\* x"<LF> : the error comes on the second call, on line 2
C5_Witness ==
    /\ Input = <<120, 34, 10>>
    /\ NCalls = 2
    /\ rets[2] = ErrRet(MsgIncomplete, [byte |-> 3, line |-> 2, col |-> 1, file |-> StdinName])

\* the token that lexing the text s alone gives first
Relex(s) == Returned(next_token(with_file(StdinName, s)))

\* the bytes of the input from offset a, n of them
Range(a, n) == SubSeq(Input, a + 1, a + n)

\* an Ident or Number token occupies the bytes of its payload
PayloadInPlace(r) ==
    /\ r.pos.byte + Len(r.tok.text) <= Len(Input)
    /\ Range(r.pos.byte, Len(r.tok.text)) = r.tok.text
    /\ Relex(Range(r.pos.byte, Len(r.tok.text))).kind = "ok"
    /\ Relex(Range(r.pos.byte, Len(r.tok.text))).tok = r.tok

\* a Str token occupies a quote, the bytes of its payload, a quote
PayloadInQuotes(r) ==
    /\ r.pos.byte + Len(r.tok.text) + 2 <= Len(Input)
    /\ Input[r.pos.byte + 1] = 34
    /\ Input[r.pos.byte + Len(r.tok.text) + 2] = 34
    /\ Range(r.pos.byte + 1, Len(r.tok.text)) = r.tok.text
    /\ Relex(Range(r.pos.byte, Len(r.tok.text) + 2)).kind = "ok"
    /\ Relex(Range(r.pos.byte, Len(r.tok.text) + 2)).tok = r.tok

\* C12 (on the token the latest call returned, in every state, so on every
\* token returned): every Ident or Number token returned at position p with payload t
\* has input[p.byte .. p.byte + len(t)] = t, and lexing that range alone gives
\* the same token; every Str token has a quote at p.byte and at
\* p.byte + len(t) + 1 with t between them, and lexing the quoted range alone
\* gives Str(t).
C12_PayloadRoundTrip ==
    NCalls >= 1 =>
       /\ (rets[NCalls].kind = "ok" /\ rets[NCalls].tok.tag \in {"Ident", "Number"}) =>
              PayloadInPlace(rets[NCalls])
       /\ (rets[NCalls].kind = "ok" /\ rets[NCalls].tok.tag = "Str") =>
              PayloadInQuotes(rets[NCalls])

\* a quoted two-byte character: the closing quote is at offset 3
C12_Witness ==
    /\ Input = <<34, 195, 169, 34>>
    /\ NCalls = 1
    /\ rets[1] = OkRet(TokText("Str", <<195, 169>>), StartPos)
    /\ Relex(Input).tok = TokText("Str", <<195, 169>>)

\* the bytes consumed so far
Consumed == SubSeq(Input, 1, lx.i)

\* the cursor is inside the input, the line counter is one more than the
\* line feeds consumed, the column counter one more than the bytes consumed
\* since the last of them
CountersMatch ==
    /\ lx.i \in 0..Len(Input)
    /\ lx.line = 1 + Cardinality({k \in 1..lx.i : Input[k] = 10})
    /\ lx.col = 1 + lx.i - LastLF(Consumed)

\* C15: after any number of next_token calls the byte offset is within
\* 0..length and the line and column counters are those the consumed bytes
\* account for (a line feed starts a new line at column 1, any other byte
\* adds one column); no call moves the offset backwards.
C15_CursorCounters ==
    /\ []CountersMatch
    /\ [][lx'.i >= lx.i]_vars

\* line feed, parenthesis, x : after two calls the cursor is at the end, on
\* line 2, column 3
C15_Witness ==
    /\ Input = <<10, 40, 120>>
    /\ NCalls = 2
    /\ lx.i = 3 /\ lx.line = 2 /\ lx.col = 3

\* offset, line and column of the byte at offset b of the input
PosAt(b) ==
    [byte |-> b,
     line |-> 1 + Cardinality({k \in 1..b : Input[k] = 10}),
     col |-> 1 + b - LastLF(SubSeq(Input, 1, b)),
     file |-> StdinName]

IsTokenRet(r) == r.kind = "ok" /\ r.tok.tag # "Eof"

\* C16: the position a call returns with a token is that of the first byte
\* at or after the cursor that is not whitespace, the token's first byte: its
\* offset, its line, its column.  So the offsets of the tokens returned, end
\* of file apart, increase strictly from call to call.
C16_TokenPosition ==
    /\ [][rets'[Len(rets')].kind = "ok" =>
             rets'[Len(rets')].pos = PosAt(NextNonWs(Input, lx.i))]_vars
    /\ [](\A j, k \in 1..NCalls :
             (j < k /\ IsTokenRet(rets[j]) /\ IsTokenRet(rets[k])) =>
                rets[j].pos.byte < rets[k].pos.byte)

\* parenthesis, line feed, x : the identifier is at offset 2, line 2, column 1
C16_Witness ==
    /\ Input = <<40, 10, 120>>
    /\ NCalls = 2
    /\ rets[1].pos = StartPos
    /\ rets[2] = OkRet(TokText("Ident", <<120>>),
                       [byte |-> 2, line |-> 2, col |-> 1, file |-> StdinName])

\* the bytes a token can start with
TokenStarts == {40, 41, 123, 125, 44, 34, 95} \cup Letters \cup (48..57)

\* the cursor, whitespace apart, is on a byte no token starts with
AtStrayByte ==
    /\ NextNonWs(Input, lx.i) < Len(Input)
    /\ Input[NextNonWs(Input, lx.i) + 1] \notin TokenStarts
StrayByte == Input[NextNonWs(Input, lx.i) + 1]

\* the digits of base 16, upper case
HexChars == <<48, 49, 50, 51, 52, 53, 54, 55, 56, 57, 65, 66, 67, 68, 69, 70>>

\* C17: a next_token call that finds, after the whitespace, a byte that is
\* not the end of input, not ( ) { } , and not a quote, a letter, an
\* underscore or a digit returns an error (no token, no panic) whose message
\* carries the value of that byte in two hexadecimal digits and whose
\* position is the offset, line and column of that byte.
C17_StrayByteError ==
    [][AtStrayByte =>
          /\ rets'[Len(rets')].kind = "err"
          /\ rets'[Len(rets')].tok = NoTok
          /\ rets'[Len(rets')].msg.hex =
                <<HexChars[(StrayByte \div 16) + 1], HexChars[(StrayByte % 16) + 1]>>
          /\ rets'[Len(rets')].pos = PosAt(NextNonWs(Input, lx.i))]_vars

\* line feed, then a two-byte character: 0xC3 at offset 1, line 2, column 1
C17_Witness ==
    /\ Input = <<10, 195, 169>>
    /\ NCalls = 1
    /\ rets[1].kind = "err"
    /\ rets[1].msg = MsgUnexpected(195)
    /\ rets[1].msg.hex = <<67, 51>>
    /\ rets[1].pos = [byte |-> 1, line |-> 2, col |-> 1, file |-> StdinName]

\* a call returned the error of the last line of next_token
IsStrayErr(r) == r.kind = "err" /\ r.msg # MsgIncomplete

\* the call that is returning left the cursor on the byte it reports, the
\* whitespace before it consumed and nothing else; and after a call that
\* returned this error the next call returns it again and moves nothing
StickyStep ==
    /\ IsStrayErr(rets'[Len(rets')]) =>
          /\ lx'.i = NextNonWs(Input, lx.i)
          /\ lx'.i < Len(Input)
          /\ rets'[Len(rets')].msg = MsgUnexpected(Input[lx'.i + 1])
          /\ rets'[Len(rets')].pos = get_pos(lx')
    /\ (NCalls >= 1 /\ IsStrayErr(rets[NCalls])) =>
          /\ rets'[Len(rets')] = rets[NCalls]
          /\ lx' = lx

\* C21: a next_token call that fails on an unexpected byte leaves the cursor
\* on that byte, only the whitespace before it consumed; every later call
\* on the same lexer returns the same error, with the same byte value and
\* position, and no token is returned after it.
C21_StrayByteSticky ==
    /\ [][StickyStep]_vars
    /\ [](\A k \in 1..NCalls :
             IsStrayErr(rets[k]) => \A j \in k..NCalls : rets[j] = rets[k])

\* space, @, ( : three calls return the error on @ at offset 1 and the
\* parenthesis is never returned
C21_Witness ==
    /\ Input = <<32, 64, 40>>
    /\ NCalls = 3
    /\ \A k \in 1..3 :
          rets[k] = ErrRet(MsgUnexpected(64),
                           [byte |-> 1, line |-> 1, col |-> 2, file |-> StdinName])
    /\ lx.i = 1

---------------------------------------------------------------------------
(* Parser claims, stated on the lines of the source and the result.        *)

\* the lines of a text in which every line ends with a line feed
RECURSIVE SplitLines(_, _)
SplitLines(s, line) ==
    IF s = <<>> THEN <<>>
    ELSE IF Head(s) = 10 THEN <<line>> \o SplitLines(Tail(s), <<>>)
    ELSE SplitLines(Tail(s), Append(line, Head(s)))
LinesOf(s) == SplitLines(s, <<>>)

\* the position of the first byte of line k
RECURSIVE LineOffset(_, _)
LineOffset(ls, k) == IF k = 1 THEN 0 ELSE LineOffset(ls, k - 1) + Len(ls[k - 1]) + 1
LineStart(ls, k) ==
    [byte |-> LineOffset(ls, k), line |-> k, col |-> 1, file |-> SourceName]

StmtLines == {LineLog, LineCall}
ImportLines == {LineImportA, LineImportB}
StmtOf(line) ==
    IF line = LineLog THEN StmtLog(<<104, 105>>) ELSE StmtCall(<<102, 111, 111>>)
PathOf(line) == IF line = LineImportA THEN <<97>> ELSE <<46, 47, 97>>

\* lines that start with an import token (the last one is the bare word)
ImportTokenLines == ImportLines \cup {KW_IMPORT}

\* valid statements with import tokens among them
IsSubWithImport(ls) ==
    /\ \A k \in 1..Len(ls) : ls[k] \in StmtLines \cup ImportTokenLines
    /\ \E k \in 1..Len(ls) : ls[k] \in ImportTokenLines
FirstImport(ls) ==
    CHOOSE k \in 1..Len(ls) :
        ls[k] \in ImportTokenLines /\ \A j \in 1..(k - 1) : ls[j] \notin ImportTokenLines

\* C9: parse_sub_programs on a file of valid log/call statements with an
\* import among them returns the Unexpected error "no 'import' in an included
\* file (only in main program)", found Import, at the position of the first
\* import token, and no statement list.
C9_ImportInIncludedFile ==
    (pres.entry = "sub" /\ IsSubWithImport(LinesOf(psrc))) =>
       /\ pres.kind = "err"
       /\ pres.err =
             ErrUnexpected(Tok("Import"),
                           ExpText("no 'import' in an included file (only in main program)"),
                           LineStart(LinesOf(psrc), FirstImport(LinesOf(psrc))))
       /\ pres.val = NoVal

C9_Witness ==
    /\ LinesOf(psrc) = <<LineLog, LineCall, LineImportA, LineLog>>
    /\ pres.entry = "sub"
    /\ pres.err.variant = "Unexpected"
    /\ pres.err.pos.line = 3

\* imports, fn main(){, valid statements, }
IsMainShape(ls, h) ==
    /\ h \in 1..(Len(ls) - 1)
    /\ ls[h] = LineHead
    /\ ls[Len(ls)] = LineClose
    /\ \A k \in 1..(h - 1) : ls[k] \in ImportLines
    /\ \A k \in (h + 1)..(Len(ls) - 1) : ls[k] \in StmtLines
MainShapeValue(ls, h) ==
    [imports |-> [k \in 1..(h - 1) |-> PathOf(ls[k])],
     stmts |-> [k \in 1..(Len(ls) - h - 1) |-> StmtOf(ls[h + k])]]

\* C10: parse_main_program on imports, fn main(){, valid statements, } returns
\* Ok with the import paths in source order (duplicates kept) and the
\* statements in source order, Log([Str(text)]) per log and Call{name} per call.
C10_MainProgramValue ==
    pres.entry = "main" =>
       \A h \in 1..Len(LinesOf(psrc)) :
          IsMainShape(LinesOf(psrc), h) =>
             /\ pres.kind = "ok"
             /\ pres.val = MainShapeValue(LinesOf(psrc), h)

C10_Witness ==
    /\ LinesOf(psrc) = <<LineHead, LineLog, LineCall, LineClose>>
    /\ pres.entry = "main"
    /\ pres.kind = "ok"
    /\ pres.val.stmts = <<StmtLog(<<104, 105>>), StmtCall(<<102, 111, 111>>)>>

\* the token a line of SourceLines starts with, for the lines that start
\* with a whole token
TokenLines ==
    {LineImportA, LineImportB, LineHead, LineClose, LineLog, LineCall,
     KW_IMPORT, KW_LOG, KW_CALL, RPAREN}
FirstTokenOf(line) ==
    IF line \in {LineImportA, LineImportB, KW_IMPORT} THEN Tok("Import")
    ELSE IF line = LineHead THEN Tok("Fn")
    ELSE IF line = LineClose THEN Tok("RBrace")
    ELSE IF line \in {LineLog, KW_LOG} THEN Tok("Log")
    ELSE IF line \in {LineCall, KW_CALL} THEN Tok("Call")
    ELSE Tok("RParen")

\* lines 1..c are a whole main file and line c + 1 starts with a token
HasTrailingToken(ls, c) ==
    /\ c \in 2..(Len(ls) - 1)
    /\ \E h \in 1..(c - 1) : IsMainShape(SubSeq(ls, 1, c), h)
    /\ ls[c + 1] \in TokenLines

\* C11: parse_main_program on a main file followed by at least one more token
\* returns the Unexpected error that expected "end of file", found that
\* trailing token, at that token's position; it never returns Ok.
C11_TrailingToken ==
    pres.entry = "main" =>
       \A c \in 1..Len(LinesOf(psrc)) :
          HasTrailingToken(LinesOf(psrc), c) =>
             /\ pres.kind = "err"
             /\ pres.err = ErrUnexpected(FirstTokenOf(LinesOf(psrc)[c + 1]), ExpText(EOF),
                                         LineStart(LinesOf(psrc), c + 1))
             /\ pres.val = NoVal

\* fn main(){ log("hi") } ) : the stray parenthesis on line 4
C11_Witness ==
    /\ LinesOf(psrc) = <<LineHead, LineLog, LineClose, RPAREN>>
    /\ pres.entry = "main"
    /\ pres.err.variant = "Unexpected"
    /\ pres.err.found = Tok("RParen")
    /\ pres.err.expected = ExpText("end of file")
    /\ pres.err.pos.line = 4

---------------------------------------------------------------------------
(* Driver claims, stated on the reads made and the statements accumulated. *)

\* the file an import string of the root names
FileOf(rel) == Locate(disk, resolve_rel(root_path, rel))
\* the reads of import files (the first read is the root's) that reached F
ReadsOfFile(F) == {k \in 2..Len(reads) : Locate(disk, reads[k]) = F}
\* the appends to imported_stmts that came from F
LoadsOfFile(F) == {k \in 1..Len(loaded) : Locate(disk, loaded[k].path) = F}
\* the statements of a text of valid statement lines
StmtsOfText(text) == [k \in 1..Len(LinesOf(text)) |-> StmtOf(LinesOf(text)[k])]
\* the statements of the files appended so far, in the order of the appends
StmtsOfLoaded ==
    Concat([k \in 1..Len(loaded) |-> StmtsOfText(disk.files[Locate(disk, loaded[k].path)])])
\* every import of the file that imports[j] names is written as imports[j] is
OneSpelling(j) ==
    \A i \in 1..Len(imports) :
        FileOf(imports[i]) = FileOf(imports[j]) => imports[i] = imports[j]

\* the reads made of the very path an import string resolves to
ReadsOfString(rel) == {k \in 2..Len(reads) : reads[k] = resolve_rel(root_path, rel)}

\* C6: an import string written any number of times in the root, whatever
\* else is imported, causes at most one read, and in a run that succeeds its
\* file has been read and appended; a file whose imports are all written with
\* that one string is read and appended at most once, exactly once in a run
\* that succeeds, the accumulated list holding its statements once.
C6_SameStringOnce ==
    \A j \in 1..Len(imports) :
        /\ Cardinality(ReadsOfString(imports[j])) <= 1
        /\ result.status = "ok" =>
              /\ ReadsOfFile(FileOf(imports[j])) # {}
              /\ LoadsOfFile(FileOf(imports[j])) # {}
        /\ OneSpelling(j) =>
              /\ Cardinality(ReadsOfFile(FileOf(imports[j]))) <= 1
              /\ Cardinality(LoadsOfFile(FileOf(imports[j]))) <= 1
              /\ result.status = "ok" =>
                    /\ Cardinality(ReadsOfFile(FileOf(imports[j]))) = 1
                    /\ Cardinality(LoadsOfFile(FileOf(imports[j]))) = 1
                    /\ imported_stmts = StmtsOfLoaded

\* import "a" import "b" import "a" : three imports, two reads
C6_Witness ==
    /\ imports = <<RelA, RelB, RelA>>
    /\ result.status = "ok"
    /\ Len(reads) = 3
    /\ Len(loaded) = 2

\* C7: import strings that are different spellings of one file share the
\* deduplication key, so no file is read or contributes its statements twice.
C7_SpellingsCollapse ==
    \A j \in 1..Len(imports) :
        /\ Cardinality(ReadsOfFile(FileOf(imports[j]))) <= 1
        /\ Cardinality(LoadsOfFile(FileOf(imports[j]))) <= 1

FirstOccurrence(rel) ==
    CHOOSE j \in 1..Len(imports) :
        imports[j] = rel /\ \A i \in 1..(j - 1) : imports[i] # rel

\* C8: the files are loaded in the order in which their paths first occur in
\* the root's import list, and the accumulated list is the concatenation, in
\* that order, of each loaded file's statements in their source order; in a
\* run that succeeds every imported file is among them.
C8_FirstOccurrenceOrder ==
    /\ \A k \in 1..Len(loaded) :
          /\ \E j \in 1..Len(imports) : imports[j] = loaded[k].rel
          /\ loaded[k].path = resolve_rel(root_path, loaded[k].rel)
    /\ \A k1, k2 \in 1..Len(loaded) :
          k1 < k2 => FirstOccurrence(loaded[k1].rel) < FirstOccurrence(loaded[k2].rel)
    /\ imported_stmts = StmtsOfLoaded
    /\ result.status = "ok" =>
          \A j \in 1..Len(imports) : LoadsOfFile(FileOf(imports[j])) # {}

\* import "b" import "a" import "b" : b's statement, then a's two
C8_Witness ==
    /\ imports = <<RelB, RelA, RelB>>
    /\ result.status = "ok"
    /\ Len(loaded) = 2
    /\ imported_stmts = <<StmtCall(<<102, 111, 111>>), StmtCall(<<102, 111, 111>>),
                          StmtLog(<<104, 105>>)>>

\* the output file is on the disk
OutputWritten == Locate(disk, out_file(root_path)) \in DOMAIN disk.files

\* an import file that cannot be loaded: it is missing, or a line of it is
\* not a whole statement
Unreadable(path) == Locate(disk, path) \notin DOMAIN disk.files
Unparsable(path) ==
    /\ ~Unreadable(path)
    /\ \E k \in 1..Len(LinesOf(disk.files[Locate(disk, path)])) :
          LinesOf(disk.files[Locate(disk, path)])[k] \notin StmtLines

\* C13: when the read, the lexing or the parsing of an import file fails,
\* that read is the last one made, main() has returned the error naming the
\* file, and the output file is not written; the output file is on the disk
\* only when main() returned Ok with the file of every import loaded.
C13_ImportFailureStops ==
    /\ \A k \in 2..Len(reads) :
          /\ Unreadable(reads[k]) =>
                /\ k = Len(reads) /\ pc = "exit"
                /\ result = ExitIo(reads[k])
                /\ ~OutputWritten
          /\ Unparsable(reads[k]) =>
                /\ k = Len(reads) /\ pc = "exit"
                /\ result.status = "parse error" /\ result.path = reads[k]
                /\ ~OutputWritten
    /\ OutputWritten =>
          /\ result = ExitOk
          /\ \A j \in 1..Len(imports) : LoadsOfFile(FileOf(imports[j])) # {}
          /\ \A k \in 2..Len(reads) : ~Unreadable(reads[k]) /\ ~Unparsable(reads[k])

\* import "a" import "z" import "b" with no file z: the run ends on z
C13_Witness ==
    /\ imports = <<RelA, RelZ, RelB>>
    /\ pc = "exit"
    /\ Len(reads) = 3
    /\ Len(loaded) = 1
    /\ result.status = "io error"
    /\ ~OutputWritten

---------------------------------------------------------------------------
(* Claims on the steps of the grammar entry points.                        *)

\* the parser is on an expect(want, name)? line
AtExpect == ppc \in DOMAIN ExpectSites
Want == ExpectSites[ppc].want
WantName == ExpectSites[ppc].name
\* what the parser's lexer gives when asked for one more token
OneMore == next_token(parser.lx)
\* the parser moved on by exactly that token
Advanced(r) == [lx |-> r.lx, cur |-> r.tok, cur_pos |-> r.pos]

\* C14: expect(want, name) looks at the tag of the current token only.  When
\* it is the wanted tag the parser advances by exactly one token and expect
\* returns Ok (the entry goes on at the next line); the case of a lexer that
\* cannot give that token is claim C18's.  When it is another tag, expect
\* returns Unexpected{found: the current token, expected: name, pos: the
\* current token's position}, which '?' returns from the entry, and the
\* current token, its position and the lexer are as they were.
C14_ExpectFrame ==
    [][AtExpect =>
         /\ (parser.cur.tag = Want /\ OneMore.kind = "ok") =>
                /\ parser' = Advanced(OneMore)
                /\ ppc' = ExpectSites[ppc].next
                /\ pres' = NoResult
         /\ parser.cur.tag # Want =>
                /\ pres'.kind = "err"
                /\ pres'.err = ErrUnexpected(parser.cur, WantName, parser.cur_pos)
                /\ pres'.val = NoVal
                /\ parser' = parser
                /\ ppc' = "done"]_vars

\* fn main(){ } ) : seven expects match and advance, expect(Eof) finds the
\* parenthesis of line 3 and leaves it the current token
C14_Witness ==
    /\ LinesOf(psrc) = <<LineHead, LineClose, RPAREN>>
    /\ ppc = "done"
    /\ pres.entry = "main"
    /\ pres.err = ErrUnexpected(Tok("RParen"), ExpText(EOF), LineStart(LinesOf(psrc), 3))
    /\ parser.cur = Tok("RParen")
    /\ parser.cur_pos = LineStart(LinesOf(psrc), 3)

\* what lexing the whole source ends with: Ok(Eof), or the first error
RECURSIVE LexToEnd(_)
LexToEndGot(r) ==
    IF r.kind # "ok" \/ r.tok.tag = "Eof" THEN Returned(r) ELSE LexToEnd(r.lx)
LexToEnd(l) == LexToEndGot(next_token(l))
SourceEnd == LexToEnd(with_file(SourceName, psrc))

\* the first token of the source, which Parser::new asks for
FirstOfSource == next_token(with_file(SourceName, psrc))

\* the step begins by asking the lexer for one more token: expect on the
\* wanted token, the loop of parse_imports on an import token, and the block
\* and file loops on log or call, whose parse_log and parse_call begin with
\* an expect that matches
StepAdvancesFirst ==
    \/ AtExpect /\ parser.cur.tag = Want
    \/ ppc = "import"
    \/ ppc \in {"stmt", "sub_stmt"} /\ parser.cur.tag \in {"Log", "Call"}

\* what an entry (or Parser::new) returns for a lexer error
LexFailure(entry, r) ==
    [entry |-> entry, kind |-> "err", val |-> NoVal, err |-> ErrLex(r.msg, r.pos)]

\* a step on which the lexer fails returns the lexer's error from the entry,
\* the current token and its position being as they were
LexFailureReturned ==
    /\ (ppc = "new" /\ FirstOfSource.kind = "err") =>
          pres' = LexFailure("new", FirstOfSource)
    /\ (StepAdvancesFirst /\ OneMore.kind = "err") =>
          /\ pres' = LexFailure(EntryOf(ppc), OneMore)
          /\ ppc' = "done"
          /\ parser'.cur = parser.cur
          /\ parser'.cur_pos = parser.cur_pos

\* C18: a failure of the lexer inside Parser::new or inside a step of an
\* entry point that advances the parser makes the operation return
\* ParseError::Lex with the lexer's message and position, and no value.  And
\* of the operation that has returned: a Lex error is the first error of the
\* source's lexing, unchanged, without any import or statement list; Ok
\* comes only when the lexing reaches the end of file; an Unexpected error
\* names a token that lies before the lexer's first error.
C18_LexErrorUnchanged ==
    /\ [][LexFailureReturned]_vars
    /\ [](ppc = "done" =>
             /\ pres.kind # "panic"
             /\ pres.kind = "ok" => SourceEnd.kind = "ok"
             /\ pres.err.variant = "Lex" =>
                   /\ SourceEnd.kind = "err"
                   /\ pres.err = ErrLex(SourceEnd.msg, SourceEnd.pos)
                   /\ pres.val = NoVal
             /\ (pres.err.variant = "Unexpected" /\ SourceEnd.kind = "err") =>
                   pres.err.pos.byte < SourceEnd.pos.byte)

\* fn main(){ log("hi") @ : the statement is whole, parse_log's last expect
\* asks for the token after it and the lexer fails on line 3
C18_Witness ==
    /\ LinesOf(psrc) = <<LineHead, LineLog, <<64>> >>
    /\ ppc = "done"
    /\ pres = LexFailure("main", [msg |-> MsgUnexpected(64),
                                  pos |-> LineStart(LinesOf(psrc), 3)])
    /\ pacc.stmts = <<>>

\* the tests of the loops of parse_imports, parse_main_program and
\* parse_sub_programs, the body each test enters and where it leaves to
LoopHeads == {"imports", "block", "sub"}
LoopBody(at) ==
    IF at = "imports" THEN "import" ELSE IF at = "block" THEN "stmt" ELSE "sub_stmt"
LoopExit(at) ==
    IF at = "imports" THEN "fn" ELSE IF at = "block" THEN "rbrace" ELSE "sub_eof"

\* the test of a loop consumes nothing; its body comes back to the test
\* with the current token further on in the source, the lexer with it, or
\* returns an error from the entry
LoopTurn ==
    \A at \in LoopHeads :
       /\ ppc = at =>
             /\ ppc' \in {LoopBody(at), LoopExit(at)}
             /\ parser' = parser
       /\ ppc = LoopBody(at) =>
             \/ /\ ppc' = at
                /\ parser'.cur_pos.byte > parser.cur_pos.byte
                /\ parser'.lx.i > parser.lx.i
             \/ /\ ppc' = "done"
                /\ pres'.kind = "err"

\* the entry point has returned Ok or Err
EntryReturned == ppc = "done" /\ pres.entry \in {"main", "sub"} /\ pres.kind \in {"ok", "err"}

\* C19: every turn of the three loops consumes at least one token or
\* returns an error; and on every source an entry point that is called
\* comes to return Ok or Err, the end of file inside an unclosed block
\* included.
C19_ParsingTerminates ==
    /\ [][LoopTurn]_vars
    /\ (ppc = "entry") ~> EntryReturned

\* fn main(){ log("hi") and the end of file: one turn consumes the
\* statement, the next returns the error on the end of file
C19_Witness ==
    /\ LinesOf(psrc) = <<LineHead, LineLog>>
    /\ ppc = "done"
    /\ pres.entry = "main"
    /\ pres.err = ErrUnexpected(Tok("Eof"), ExpText("'log'"),
                                [byte |-> Len(psrc), line |-> 3, col |-> 1, file |-> SourceName])
    /\ pacc.stmts = <<StmtLog(<<104, 105>>)>>

---------------------------------------------------------------------------
(* Claims on the driver and the root file.                                 *)

\* the text and the lines of the root file
RootSource == disk.files[Locate(disk, root_path)]
RootLines == LinesOf(RootSource)

\* lines that are import lines, fn main(){, valid statements and } : no
\* error anywhere in them
IsWholeMain(ls) ==
    \E h \in 1..(Len(ls) - 1) :
       /\ ls[h] = LineHead
       /\ ls[Len(ls)] = LineClose
       /\ \A k \in 1..(h - 1) : \E rel \in ImportRels : ls[k] = ImportLine(rel)
       /\ \A k \in (h + 1)..(Len(ls) - 1) : ls[k] \in StmtLines
RootIsWhole == IsWholeMain(RootLines)

\* the import lines the root begins with
RECURSIVE LeadingImports(_)
LeadingImports(ls) ==
    IF ls # <<>> /\ \E rel \in ImportRels : Head(ls) = ImportLine(rel)
    THEN 1 + LeadingImports(Tail(ls))
    ELSE 0

\* an import file has been read, or is about to be
PastRoot == Len(reads) > 1 \/ pc = "imports" \/ loaded # <<>>

\* C20: an import file is read, and the output written, only when the root
\* file has been read first, lexed to its end and parsed as a whole main
\* file.  A run whose root file has a lex or parse error anywhere, after its
\* import lines too, ends with that error having read the root file alone:
\* no import is read or loaded and the output is not written.
C20_RootBeforeImports ==
    /\ (PastRoot \/ OutputWritten) =>
          /\ RootIsWhole
          /\ LexToEnd(with_file(root_path, RootSource)).kind = "ok"
          /\ reads[1] = root_path
          /\ Len(imports) = LeadingImports(RootLines)
    /\ (pc = "exit" /\ ~RootIsWhole) =>
          /\ reads = <<root_path>>
          /\ result.status = "parse error"
          /\ result.path = root_path
          /\ loaded = <<>> /\ imported_stmts = <<>>
          /\ ~OutputWritten

\* import "a", fn main(){ } and a stray byte on the last line: a.gfr is on
\* the disk and is not read
C20_Witness ==
    /\ RootLines = <<ImportLine(RelA), LineHead, LineClose, <<64>> >>
    /\ pc = "exit"
    /\ reads = <<root_path>>
    /\ IsFile(disk, resolve_rel(root_path, RelA))
    /\ result.status = "parse error"
    /\ result.err.variant = "Lex"
    /\ result.err.pos.line = 4
    /\ ~OutputWritten

===========================================================================
